---------------------------- MODULE Spec2Model ----------------------------
(***************************************************************************)
(* A model of the binarytree library (binarytree/__init__.py): the        *)
(* level-order serializer (_build_tree, _build_list, convert), the        *)
(* validator, the inspector (inspect, _is_balanced) and the generators    *)
(* (tree, bst, heap).                                                      *)
(*                                                                         *)
(* Python objects are modelled as a node store: a tree value is a record  *)
(* [root, val, left, right] where val, left and right are sequences        *)
(* indexed by node identity (1, 2, ... in allocation order) and root,     *)
(* left[n], right[n] are node identities or null.  Python lists are        *)
(* sequences; Python's 0-based index i is position i + 1 here.             *)
(* The library runs under its default configuration (no setup() call).    *)
(***************************************************************************)
EXTENDS Integers, Sequences, FiniteSets, TLC

VARIABLES
    pc,       \* position of the caller: which call has returned or raised
    op,       \* the generator that was called ("" when none)
    values,   \* the flat list given by the caller, or the sampled values
    bt,       \* the tree object in play (root reference and node store)
    lst,      \* the list returned by convert(<node>)
    info,     \* the dictionary returned by inspect
    err,      \* the exception that propagated to the caller ("" when none)
    height,   \* the height argument of the generator
    index,    \* loop variable of tree()/bst()
    depth     \* depth returned by the last _random_insert/_bst_insert

vars == <<pc, op, values, bt, lst, info, err, height, index, depth>>

---------------------------------------------------------------------------
(* Bounds of the model *)

\* flat lists of the serializer/inspector specification: length and values
MaxLen == 6
MaxVal == 2
\* flat lists of the deep-tree specification: longer lists over fewer values
MaxDeepLen == 9
MaxDeepVal == 0
\* heights passed to the generators: height h samples 2^(h+1)-1 values, so
\* height 2 has 7! = 5040 sample orders and height 3 has 15!
MaxHeight == 2

---------------------------------------------------------------------------
(* Node abstraction *)

\* _null = None.  None is modelled as an integer no value of the model equals:
\* list values are naturals, sampled values lie in 0 .. count-1 (negated for
\* the max-heap), node identities are positive.
null == -1000

\* float('inf'): larger than every value of the model
inf == 1000000

Max(a, b) == IF a >= b THEN a ELSE b
Min(a, b) == IF a <= b THEN a ELSE b
Abs(a) == IF a < 0 THEN -a ELSE a

\* the tree whose root reference is _null, on an empty node store
NoTree == [root |-> null, val |-> <<>>, left |-> <<>>, right |-> <<>>]

\* Node(value) allocated on the store of t; the new node's identity is
\* Len(t.val) + 1 and its children are _null
_new_node(t, value) ==
    [t EXCEPT !.val = Append(@, value),
              !.left = Append(@, null),
              !.right = Append(@, null)]

_value_of(t, node) == t.val[node]
_left_of(t, node) == t.left[node]
_right_of(t, node) == t.right[node]
_add_left(t, parent, child) == [t EXCEPT !.left[parent] = child]
_add_right(t, parent, child) == [t EXCEPT !.right[parent] = child]

---------------------------------------------------------------------------
(* Serializer *)

\* the trailing loop of _build_list: pop while the last element is _null
RECURSIVE TrimNull(_)
TrimNull(result) ==
    IF result # <<>> /\ result[Len(result)] = null
    THEN TrimNull(SubSeq(result, 1, Len(result) - 1))
    ELSE result

\* the for loop of _build_list over current_nodes, from position i on;
\* acc = [result, next_nodes, level_not_empty]
RECURSIVE ListLevel(_, _, _, _)
ListLevel(t, current_nodes, i, acc) ==
    IF i > Len(current_nodes) THEN acc
    ELSE LET node == current_nodes[i] IN
         IF node = null
         THEN ListLevel(t, current_nodes, i + 1,
                  [acc EXCEPT !.result = Append(@, null),
                              !.next_nodes = @ \o <<null, null>>])
         ELSE LET left_child == _left_of(t, node)
                  right_child == _right_of(t, node)
              IN ListLevel(t, current_nodes, i + 1,
                  [result |-> Append(acc.result, _value_of(t, node)),
                   next_nodes |-> acc.next_nodes \o <<left_child, right_child>>,
                   level_not_empty |-> acc.level_not_empty
                                       \/ left_child # null
                                       \/ right_child # null])

\* the while loop of _build_list: one level per iteration
RECURSIVE ListLoop(_, _, _)
ListLoop(t, current_nodes, result) ==
    LET acc == ListLevel(t, current_nodes, 1,
                   [result |-> result, next_nodes |-> <<>>,
                    level_not_empty |-> FALSE])
    IN IF acc.level_not_empty
       THEN ListLoop(t, acc.next_nodes, acc.result)
       ELSE acc.result

\* a _build_list that does not pop the trailing _null
BuildListNoTrim(t) == ListLoop(t, <<t.root>>, <<>>)

_build_list(t) == TrimNull(ListLoop(t, <<t.root>>, <<>>))

\* parent_index = int((index + 1) / 2) - 1, on 0-based indices
ParentIndex(i) == ((i + 1) \div 2) - 1

\* a _build_tree that accepts a _null at position 0
RootMissingNever(vals) == FALSE

\* _build_tree's test of position 0: values[0] == _null raises
RootMissing(vals) == vals[1] = null

\* _build_tree's test of a child's parent: parent_node == _null raises
ParentMissing(nodes, parent_index) == nodes[parent_index + 1] = null

\* the while loop of _build_tree from 0-based position i on; nodes is the list
\* of node references per position.  Returns [raised, tree].
RECURSIVE BuildLoop(_, _, _, _)
BuildLoop(vals, t, nodes, i) ==
    IF i >= Len(vals) THEN [raised |-> FALSE, tree |-> t]
    ELSE LET value == vals[i + 1] IN
         IF value # null
         THEN LET parent_index == ParentIndex(i) IN
              IF ParentMissing(nodes, parent_index)
              THEN [raised |-> TRUE, tree |-> NoTree]
              ELSE LET parent_node == nodes[parent_index + 1]
                       child_node == Len(t.val) + 1
                       t1 == _new_node(t, value)
                       t2 == IF i % 2 = 1
                             THEN _add_left(t1, parent_node, child_node)
                             ELSE _add_right(t1, parent_node, child_node)
                   IN BuildLoop(vals, t2,
                                [nodes EXCEPT ![i + 1] = child_node], i + 1)
         ELSE BuildLoop(vals, t, nodes, i + 1)

\* _build_tree(values): [raised |-> TRUE] models ValueError('Node missing ...')
_build_tree(vals) ==
    IF vals = <<>> THEN [raised |-> FALSE, tree |-> NoTree]
    ELSE IF RootMissing(vals) THEN [raised |-> TRUE, tree |-> NoTree]
    ELSE LET t0 == [_new_node(NoTree, vals[1]) EXCEPT !.root = 1]
             nodes == [k \in 1..Len(vals) |-> IF k = 1 THEN 1 ELSE null]
         IN BuildLoop(vals, t0, nodes, 1)

---------------------------------------------------------------------------
(* Validator *)

\* _validate_tree: every reference of the store is a node or _null, so only
\* 'A node cannot have a null value' can be raised.  The walk from the root,
\* level by level; TRUE when it raises.
RECURSIVE ValidateLoop(_, _)
ValidateLoop(t, current_nodes) ==
    IF current_nodes = <<>> THEN FALSE
    ELSE LET real == SelectSeq(current_nodes, LAMBDA n : n # null)
             Kids(k) == IF k % 2 = 1 THEN _left_of(t, real[(k + 1) \div 2])
                                     ELSE _right_of(t, real[(k + 1) \div 2])
         IN IF \E k \in 1..Len(real) : _value_of(t, real[k]) = null
            THEN TRUE
            ELSE ValidateLoop(t, [k \in 1..(2 * Len(real)) |-> Kids(k)])

_validate_tree(t) == ValidateLoop(t, <<t.root>>)

---------------------------------------------------------------------------
(* Inspector *)

\* _is_balanced(node): depth if balanced else -1
RECURSIVE _is_balanced(_, _)
_is_balanced(t, node) ==
    IF node = null THEN 0
    ELSE LET l == _is_balanced(t, _left_of(t, node))
             r == _is_balanced(t, _right_of(t, node))
         IN IF l < 0 \/ r < 0 \/ Abs(l - r) > 1 THEN -1
            ELSE Max(l, r) + 1

\* the locals of inspect before its while loop
InspectStart(t) ==
    [is_bst |-> TRUE, is_descending |-> TRUE, is_ascending |-> TRUE,
     is_left_padded |-> TRUE, min_value |-> inf, max_value |-> -inf,
     node_count |-> 0, leaf_count |-> 0, min_leaf_depth |-> 0,
     current_depth |-> -1, null_encountered |-> FALSE,
     next_nodes |-> <<>>]

\* one iteration of "for child in (left_child, right_child)"
PadStep(a, child) ==
    IF child # null /\ a.null_encountered
    THEN [a EXCEPT !.is_left_padded = FALSE]
    ELSE IF child = null /\ ~a.null_encountered
    THEN [a EXCEPT !.null_encountered = TRUE]
    ELSE a

\* the leaf bookkeeping of inspect
LeafStep(a, left_child, right_child) ==
    IF left_child = null /\ right_child = null
    THEN [a EXCEPT !.min_leaf_depth = IF @ = 0 THEN a.current_depth ELSE @,
                   !.leaf_count = @ + 1]
    ELSE a

\* the comparison of a node with its left child
LeftStep(t, a, node_value, left_child) ==
    IF left_child # null
    THEN LET v == _value_of(t, left_child)
             b == [a EXCEPT !.next_nodes = Append(@, left_child)]
         IN IF v > node_value
            THEN [b EXCEPT !.is_descending = FALSE, !.is_bst = FALSE]
            ELSE IF v < node_value
            THEN [b EXCEPT !.is_ascending = FALSE]
            ELSE b
    ELSE a

\* the comparison of a node with its right child
RightStep(t, a, node_value, right_child) ==
    IF right_child # null
    THEN LET v == _value_of(t, right_child)
             b == [a EXCEPT !.next_nodes = Append(@, right_child)]
         IN IF v > node_value
            THEN [b EXCEPT !.is_descending = FALSE]
            ELSE IF v < node_value
            THEN [b EXCEPT !.is_ascending = FALSE, !.is_bst = FALSE]
            ELSE b
    ELSE a

\* the body of "for node in current_nodes" for one node (not _null)
VisitNode(t, a, node) ==
    LET node_value == _value_of(t, node)
        left_child == _left_of(t, node)
        right_child == _right_of(t, node)
        a1 == [a EXCEPT !.node_count = @ + 1,
                        !.min_value = Min(node_value, @),
                        !.max_value = Max(node_value, @)]
        a2 == PadStep(PadStep(a1, left_child), right_child)
        a3 == LeafStep(a2, left_child, right_child)
        a4 == LeftStep(t, a3, node_value, left_child)
    IN RightStep(t, a4, node_value, right_child)

RECURSIVE InspectLevel(_, _, _, _)
InspectLevel(t, a, current_nodes, i) ==
    IF i > Len(current_nodes) THEN a
    ELSE InspectLevel(t, VisitNode(t, a, current_nodes[i]), current_nodes, i + 1)

\* the while loop of inspect: one level per iteration
RECURSIVE InspectLoop(_, _, _)
InspectLoop(t, a, current_nodes) ==
    IF current_nodes = <<>> THEN a
    ELSE LET a0 == [a EXCEPT !.null_encountered = FALSE,
                             !.current_depth = @ + 1,
                             !.next_nodes = <<>>]
             a1 == InspectLevel(t, a0, current_nodes, 1)
         IN InspectLoop(t, a1, a1.next_nodes)

\* an is_height_balanced that tolerates no difference of leaf depths
HeightBalancedStrict(current_depth, min_leaf_depth) ==
    current_depth - min_leaf_depth < 1

\* 'is_height_balanced': current_depth - min_leaf_depth < 2
HeightBalanced(current_depth, min_leaf_depth) ==
    current_depth - min_leaf_depth < 2

\* the dictionary inspect returns
InspectResult(t, a) ==
    LET is_balanced == _is_balanced(t, t.root) >= 0 IN
    [is_height_balanced |-> HeightBalanced(a.current_depth, a.min_leaf_depth),
     is_weight_balanced |-> is_balanced,
     is_max_heap |-> a.is_descending /\ a.is_left_padded /\ is_balanced,
     is_min_heap |-> a.is_ascending /\ a.is_left_padded /\ is_balanced,
     is_bst |-> a.is_bst,
     height |-> a.current_depth,
     leaf_count |-> a.leaf_count,
     node_count |-> a.node_count,
     min_leaf_depth |-> a.min_leaf_depth,
     max_leaf_depth |-> a.current_depth,
     min_value |-> a.min_value,
     max_value |-> a.max_value]

NoInfo == [none |-> TRUE]

\* inspect from line 382 on, for the tree object bt.  With bt == _null the
\* first iteration of the for loop evaluates getattr(None, 'value'), which
\* raises AttributeError.
InspectBody(t) ==
    IF t.root = null
    THEN [err |-> "AttributeError", info |-> NoInfo, tree |-> t]
    ELSE [err |-> "", tree |-> t,
          info |-> InspectResult(t, InspectLoop(t, InspectStart(t), <<t.root>>))]

\* inspect(bt) for a list argument
inspect_list(vals) ==
    LET b == _build_tree(vals) IN
    IF b.raised THEN [err |-> "ValueError", info |-> NoInfo, tree |-> NoTree]
    ELSE InspectBody(b.tree)

\* inspect(bt) for a tree object: _null is neither a list nor a node
inspect_node(t) ==
    IF t.root = null \/ _validate_tree(t)
    THEN [err |-> "ValueError", info |-> NoInfo, tree |-> t]
    ELSE InspectBody(t)

\* convert(bt) for a list argument: [] is not _null, so it is built
convert_list(vals) == _build_tree(vals)

\* convert(bt) for a tree object; [raised, list]
convert_node(t) ==
    IF t.root = null THEN [raised |-> FALSE, list |-> <<>>]
    ELSE IF _validate_tree(t) THEN [raised |-> TRUE, list |-> <<>>]
    ELSE [raised |-> FALSE, list |-> _build_list(t)]

---------------------------------------------------------------------------
(* The serializer/inspector specification: the caller holds a flat list,   *)
(* converts it to a tree and back, and inspects the list or the tree.      *)

FlatLists(maxlen, maxval) ==
    UNION {[1..n -> (0..maxval) \cup {null}] : n \in 0..maxlen}

InitCommon ==
    /\ pc = "input"
    /\ op = ""
    /\ bt = NoTree
    /\ lst = <<>>
    /\ info = NoInfo
    /\ err = ""
    /\ height = 0
    /\ index = 0
    /\ depth = 0

Init ==
    /\ values \in FlatLists(MaxLen, MaxVal)
    /\ InitCommon

InitDeep ==
    /\ values \in FlatLists(MaxDeepLen, MaxDeepVal)
    /\ InitCommon

\* bt = convert(values)
ConvertList ==
    /\ pc = "input"
    /\ LET b == convert_list(values) IN
       /\ bt' = b.tree
       /\ err' = IF b.raised THEN "ValueError" ELSE ""
       /\ pc' = IF b.raised THEN "convert_list_raised" ELSE "tree"
    /\ UNCHANGED <<op, values, lst, info, height, index, depth>>

\* lst = convert(bt)
ConvertNode ==
    /\ pc = "tree"
    /\ LET r == convert_node(bt) IN
       /\ lst' = r.list
       /\ err' = IF r.raised THEN "ValueError" ELSE ""
       /\ pc' = IF r.raised THEN "convert_node_raised" ELSE "list"
    /\ UNCHANGED <<op, values, bt, info, height, index, depth>>

\* info = inspect(values); bt records the tree inspect built from the list
InspectList ==
    /\ pc = "input"
    /\ LET r == inspect_list(values) IN
       /\ info' = r.info
       /\ err' = r.err
       /\ bt' = r.tree
       /\ pc' = IF r.err = "" THEN "inspected_list" ELSE "inspect_list_raised"
    /\ UNCHANGED <<op, values, lst, height, index, depth>>

\* info = inspect(bt)
InspectNode ==
    /\ pc = "tree"
    /\ LET r == inspect_node(bt) IN
       /\ info' = r.info
       /\ err' = r.err
       /\ pc' = IF r.err = "" THEN "inspected_node" ELSE "inspect_node_raised"
    /\ UNCHANGED <<op, values, bt, lst, height, index, depth>>

Next == ConvertList \/ ConvertNode \/ InspectList \/ InspectNode

Spec == Init /\ [][Next]_vars

SpecDeep == InitDeep /\ [][Next]_vars

---------------------------------------------------------------------------
(* Generators *)

\* count = 2 ** (height + 1) - 1
Count(h) == 2 ^ (h + 1) - 1

\* sample(range(count), count): the lists that hold every value of
\* 0 .. count-1 once, in any order
Samples(h) ==
    {[k \in 1..Count(h) |-> p[k - 1]] : p \in Permutations(0..(Count(h) - 1))}

\* a loop test that never breaks
StopInsertNever(d, h) == FALSE

\* a loop test that breaks one level early
StopInsertEarly(d, h) == d = h - 1

\* the test "if depth == height: break" of tree() and bst()
StopInsert(d, h) == d = h

\* a descent that goes left for the larger values
GoesLeftFlipped(node_value, value) == node_value < value

\* the test "_value_of(node) > value" of _bst_insert
GoesLeft(node_value, value) == node_value > value

\* the while loop of _bst_insert from node, at depth d.  Returns [tree, depth].
RECURSIVE BstWalk(_, _, _, _)
BstWalk(t, node, d, value) ==
    LET child_node == Len(t.val) + 1 IN
    IF GoesLeft(_value_of(t, node), value)
    THEN LET left_child == _left_of(t, node) IN
         IF left_child = null
         THEN [tree |-> _add_left(_new_node(t, value), node, child_node),
               depth |-> d]
         ELSE BstWalk(t, left_child, d + 1, value)
    ELSE LET right_child == _right_of(t, node) IN
         IF right_child = null
         THEN [tree |-> _add_right(_new_node(t, value), node, child_node),
               depth |-> d]
         ELSE BstWalk(t, right_child, d + 1, value)

_bst_insert(t, value) == BstWalk(t, t.root, 1, value)

\* the while loop of _random_insert from node, at depth d; coins[d] is the
\* outcome of "random() < 0.5" at that iteration.  Returns [tree, depth].
RECURSIVE RandomWalk(_, _, _, _, _)
RandomWalk(t, node, d, value, coins) ==
    LET child_node == Len(t.val) + 1 IN
    IF coins[d]
    THEN LET left_child == _left_of(t, node) IN
         IF left_child = null
         THEN [tree |-> _add_left(_new_node(t, value), node, child_node),
               depth |-> d]
         ELSE RandomWalk(t, left_child, d + 1, value, coins)
    ELSE LET right_child == _right_of(t, node) IN
         IF right_child = null
         THEN [tree |-> _add_right(_new_node(t, value), node, child_node),
               depth |-> d]
         ELSE RandomWalk(t, right_child, d + 1, value, coins)

_random_insert(t, value, coins) == RandomWalk(t, t.root, 1, value, coins)

\* the outcomes of random() one call of _random_insert may consume: the walk
\* visits distinct nodes, so at most one per node of the tree
Coins(t) == [1..Len(t.val) -> BOOLEAN]

\* heapq._siftdown(heap, startpos, pos), on 0-based positions
RECURSIVE SiftDownLoop(_, _, _, _)
SiftDownLoop(h, startpos, pos, newitem) ==
    IF pos > startpos
    THEN LET parentpos == (pos - 1) \div 2
             parent == h[parentpos + 1]
         IN IF newitem < parent
            THEN SiftDownLoop([h EXCEPT ![pos + 1] = parent],
                              startpos, parentpos, newitem)
            ELSE [h EXCEPT ![pos + 1] = newitem]
    ELSE [h EXCEPT ![pos + 1] = newitem]

_siftdown(h, startpos, pos) == SiftDownLoop(h, startpos, pos, h[pos + 1])

\* heapq._siftup(heap, pos): bubble the smaller child up to a leaf, then
\* sift the displaced item down into place
RECURSIVE SiftUpLoop(_, _, _, _)
SiftUpLoop(h, startpos, pos, newitem) ==
    LET endpos == Len(h)
        childpos == 2 * pos + 1
    IN IF childpos < endpos
       THEN LET rightpos == childpos + 1
                c == IF rightpos < endpos /\ ~(h[childpos + 1] < h[rightpos + 1])
                     THEN rightpos ELSE childpos
            IN SiftUpLoop([h EXCEPT ![pos + 1] = h[c + 1]], startpos, c, newitem)
       ELSE _siftdown([h EXCEPT ![pos + 1] = newitem], startpos, pos)

_siftup(h, pos) == SiftUpLoop(h, pos, pos, h[pos + 1])

\* heapq.heapify(x): for i in reversed(range(n // 2)): _siftup(x, i)
RECURSIVE HeapifyLoop(_, _)
HeapifyLoop(x, i) ==
    IF i < 0 THEN x ELSE HeapifyLoop(_siftup(x, i), i - 1)

heapify(x) == HeapifyLoop(x, (Len(x) \div 2) - 1)

\* a heap(max=True) that forgets the negation
NotNegated(vals) == vals

\* [-v for v in values]
Negated(vals) == [k \in 1..Len(vals) |-> -vals[k]]

\* the heights a caller passes; -1 stands for the invalid ones
Heights == (-1)..MaxHeight

InitGen ==
    /\ pc = "idle"
    /\ op = ""
    /\ values = <<>>
    /\ bt = NoTree
    /\ lst = <<>>
    /\ info = NoInfo
    /\ err = ""
    /\ height = 0
    /\ index = 0
    /\ depth = 0

\* _generate_values raises ValueError('Height must be a non-negative integer')
GenerateRaises(name, h) ==
    /\ pc = "idle"
    /\ h < 0
    /\ pc' = "generate_raised"
    /\ op' = name
    /\ err' = "ValueError"
    /\ height' = h
    /\ UNCHANGED <<values, bt, lst, info, index, depth>>

\* root = _new_node(values[0]) and the entry into "for index in range(1, len(values))"
StartLoop(name, h, vals) ==
    /\ values' = vals
    /\ bt' = [_new_node(NoTree, vals[1]) EXCEPT !.root = 1]
    /\ op' = name
    /\ height' = h
    /\ index' = IF Len(vals) > 1 THEN 1 ELSE 0
    /\ pc' = IF Len(vals) > 1 THEN name \o "_loop" ELSE "tree"
    /\ UNCHANGED <<lst, info, err, depth>>

\* the rest of a loop iteration after the insert returned r
AfterInsert(name, r) ==
    /\ bt' = r.tree
    /\ depth' = r.depth
    /\ IF StopInsert(r.depth, height)
       THEN pc' = "tree" /\ index' = index
       ELSE IF index + 1 < Len(values)
       THEN pc' = name \o "_loop" /\ index' = index + 1
       ELSE pc' = "tree" /\ index' = index
    /\ UNCHANGED <<op, values, lst, info, err, height>>

\* tree(height, balanced) up to its return or its loop
tree(h, balanced) ==
    /\ pc = "idle"
    /\ h >= 0
    /\ \E vals \in Samples(h) :
        IF balanced
        THEN /\ values' = vals
             /\ bt' = _build_tree(vals).tree
             /\ op' = "tree_balanced"
             /\ height' = h
             /\ pc' = "tree"
             /\ UNCHANGED <<lst, info, err, index, depth>>
        ELSE StartLoop("tree", h, vals)

\* one iteration of the loop of tree(): depth = _random_insert(root, values[index])
tree_insert ==
    /\ pc = "tree_loop"
    /\ \E coins \in Coins(bt) :
        AfterInsert("tree", _random_insert(bt, values[index + 1], coins))

\* bst(height) up to its return or its loop
bst(h) ==
    /\ pc = "idle"
    /\ h >= 0
    /\ \E vals \in Samples(h) : StartLoop("bst", h, vals)

\* one iteration of the loop of bst(): depth = _bst_insert(root, values[index])
bst_insert ==
    /\ pc = "bst_loop"
    /\ AfterInsert("bst", _bst_insert(bt, values[index + 1]))

\* heap(height, max)
heap(h, max) ==
    /\ pc = "idle"
    /\ h >= 0
    /\ \E vals \in Samples(h) :
        /\ values' = IF max THEN vals ELSE heapify(vals)
        /\ bt' = IF max
                 THEN _build_tree(Negated(heapify(Negated(vals)))).tree
                 ELSE _build_tree(heapify(vals)).tree
        /\ op' = IF max THEN "heap_max" ELSE "heap_min"
        /\ height' = h
        /\ pc' = "tree"
        /\ UNCHANGED <<lst, info, err, index, depth>>

NextGen ==
    \/ \E h \in Heights : \E balanced \in BOOLEAN : tree(h, balanced)
    \/ tree_insert
    \/ \E h \in Heights : bst(h)
    \/ bst_insert
    \/ \E h \in Heights : \E max \in BOOLEAN : heap(h, max)
    \/ \E h \in Heights : \E name \in {"tree", "bst", "heap"} : GenerateRaises(name, h)
    \/ InspectNode

SpecGen == InitGen /\ [][NextGen]_vars

---------------------------------------------------------------------------
(* Properties of the serializer and the inspector *)

NoSentinel(v) == \A k \in 1..Len(v) : v[k] # null

\* some non-sentinel position i > 0 has the sentinel at floor((i-1)/2)
Orphan(v) ==
    \E i \in 1..(Len(v) - 1) :
        v[i + 1] # null /\ v[((i - 1) \div 2) + 1] = null

WellFormed(v) ==
    v = <<>> \/ (v[1] # null /\ ~Orphan(v) /\ v[Len(v)] # null)

\* the values held in the subtree of node
RECURSIVE SubtreeValues(_, _)
SubtreeValues(t, node) ==
    IF node = null THEN {}
    ELSE {_value_of(t, node)} \cup SubtreeValues(t, _left_of(t, node))
                              \cup SubtreeValues(t, _right_of(t, node))

\* left < parent < right recursively
RECURSIVE IsSearchTree(_, _)
IsSearchTree(t, node) ==
    \/ node = null
    \/ /\ \A v \in SubtreeValues(t, _left_of(t, node)) : v < _value_of(t, node)
       /\ \A v \in SubtreeValues(t, _right_of(t, node)) : v > _value_of(t, node)
       /\ IsSearchTree(t, _left_of(t, node))
       /\ IsSearchTree(t, _right_of(t, node))

\* C1: round trip.  For every well-formed flat list, convert(values) returns a
\* tree without raising, and converting that tree back returns exactly values
\* (the empty list included).
C1_RoundTrip ==
    WellFormed(values) =>
        /\ pc # "convert_list_raised"
        /\ pc # "convert_node_raised"
        /\ pc = "list" => lst = values

\* a well-formed list with an inner sentinel has gone to a tree and back
C1_Witness ==
    /\ pc = "list"
    /\ WellFormed(values)
    /\ Len(values) = 5
    /\ values[4] = null
    /\ lst = values

\* C2: _build_tree on a non-empty list raises exactly when position 0 holds
\* the sentinel or some non-sentinel position has the sentinel at its parent
\* position; otherwise it returns a tree.
C2_BuildFailsIffMalformed ==
    (pc \in {"tree", "convert_list_raised"} /\ values # <<>>) =>
        ((pc = "convert_list_raised") <=> (values[1] = null \/ Orphan(values)))

\* [None, None, v] has been refused
C2_Witness ==
    /\ pc = "convert_list_raised"
    /\ err = "ValueError"
    /\ values = <<null, null, 2>>

\* C6: inspect([]) returns a record with height = -1, node_count = 0 and
\* leaf_count = 0, and does not fail.
C6_InspectEmpty ==
    (values = <<>> /\ pc \in {"inspected_list", "inspect_list_raised"}) =>
        /\ err = ""
        /\ info.height = -1
        /\ info.node_count = 0
        /\ info.leaf_count = 0

\* C7: for every non-empty tree, inspect reports is_bst exactly when at every
\* node all values of the left subtree are strictly smaller and all values of
\* the right subtree strictly larger than the node's value.
C7_IsBstIffSearchTree ==
    (pc \in {"inspected_list", "inspected_node"}) =>
        (info.is_bst <=> IsSearchTree(bt, bt.root))

\* C8: the tree built from a non-empty flat list without sentinel is reported
\* weight balanced and height balanced.
C8_FullListBalanced ==
    (/\ pc \in {"inspected_list", "inspect_list_raised",
                "inspected_node", "inspect_node_raised"}
     /\ values # <<>>
     /\ NoSentinel(values)) =>
        /\ err = ""
        /\ info.is_weight_balanced
        /\ info.is_height_balanced

\* a full list whose last level holds a single node has been inspected
C8_Witness ==
    /\ pc = "inspected_list"
    /\ Len(values) = 8
    /\ NoSentinel(values)
    /\ info.height = 3
    /\ info.is_weight_balanced
    /\ info.is_height_balanced

\* C9: whenever inspect reports is_min_heap or is_max_heap, the flat list of
\* the tree holds no sentinel at any position.
C9_HeapIsComplete ==
    (/\ pc \in {"inspected_list", "inspected_node"}
     /\ (info.is_min_heap \/ info.is_max_heap)) =>
        NoSentinel(_build_list(bt))

---------------------------------------------------------------------------
(* Properties of the generators *)

\* inspect has returned or raised on the generated tree
InspectDone == pc \in {"inspected_node", "inspect_node_raised"}

\* the nodes of the store are exactly those reachable from the root
\* (the generators never drop a node)
Nodes(t) == 1..Len(t.val)

Children(t, n) == {_left_of(t, n), _right_of(t, n)} \ {null}

\* edges on the longest path from node down to a leaf; -1 for no node
RECURSIVE HeightOf(_, _)
HeightOf(t, node) ==
    IF node = null THEN -1
    ELSE 1 + Max(HeightOf(t, _left_of(t, node)), HeightOf(t, _right_of(t, node)))

\* C3: the tree bst(h) builds is a valid binary search tree, after every
\* insertion and at its return, and inspect reports is_bst on it.
C3_BstIsSearchTree ==
    (op = "bst" /\ pc # "generate_raised") =>
        /\ IsSearchTree(bt, bt.root)
        /\ InspectDone => (err = "" /\ info.is_bst)

\* bst(2) has returned a tree of four nodes, the root with two children,
\* and inspect reported is_bst
C3_Witness ==
    /\ op = "bst"
    /\ pc = "inspected_node"
    /\ height = 2
    /\ info.node_count = 4
    /\ _left_of(bt, bt.root) # null
    /\ _right_of(bt, bt.root) # null
    /\ info.is_bst

\* C4: the trees tree(h), tree(h, balanced=True), bst(h) and heap(h) return
\* have height at most h as inspect reports it, and exactly h for heap(h)
\* and tree(h, balanced=True).
C4_HeightBound ==
    (InspectDone /\ op \in {"tree", "tree_balanced", "bst", "heap_min", "heap_max"}) =>
        /\ err = ""
        /\ info.height = HeightOf(bt, bt.root)
        /\ info.height <= height
        /\ op \in {"tree_balanced", "heap_min", "heap_max"} => info.height = height

\* tree(2) has returned after three random insertions and was inspected
C4_Witness ==
    /\ op = "tree"
    /\ pc = "inspected_node"
    /\ height = 2
    /\ info.node_count = 4
    /\ info.height = 2

\* C5: inspect reports is_min_heap on heap(h) and is_max_heap on
\* heap(h, max=True): no child is smaller (larger) than its parent and all
\* 2^(h+1)-1 positions of the tree are filled.
C5_HeapInvariant ==
    (InspectDone /\ op \in {"heap_min", "heap_max"}) =>
        /\ err = ""
        /\ info.node_count = 2 ^ (height + 1) - 1
        /\ info.height = height
        /\ op = "heap_min" =>
              /\ info.is_min_heap
              /\ \A n \in Nodes(bt) : \A c \in Children(bt, n) :
                     _value_of(bt, c) >= _value_of(bt, n)
        /\ op = "heap_max" =>
              /\ info.is_max_heap
              /\ \A n \in Nodes(bt) : \A c \in Children(bt, n) :
                     _value_of(bt, c) <= _value_of(bt, n)

\* heap(2, max=True) has returned a max-heap that is not the sampled order
C5_Witness ==
    /\ op = "heap_max"
    /\ pc = "inspected_node"
    /\ height = 2
    /\ bt.val # values
    /\ info.is_max_heap
    /\ ~info.is_min_heap

\* C10: tree(h) and bst(h) return a tree of height exactly h: while the loop
\* runs no node is as deep as h, the loop ends by an insertion at depth h
\* (for h > 0) and not by running out of values, and inspect reports height h.
C10_ExactHeight ==
    (op \in {"tree", "bst"} /\ pc # "generate_raised") =>
        /\ pc \in {"tree_loop", "bst_loop"} => depth < height
        /\ (pc \notin {"tree_loop", "bst_loop"} /\ height > 0) => depth = height
        /\ InspectDone => (err = "" /\ info.height = height)

\* bst(2) has stopped at its third insertion, values left over
C10_Witness ==
    /\ op = "bst"
    /\ pc = "inspected_node"
    /\ height = 2
    /\ index = 3
    /\ index < Len(values) - 1
    /\ depth = 2
    /\ info.height = 2

===========================================================================
